---- MODULE Spec2Model ----
(***************************************************************************)
(* Model of the reporting part of the CGB events planner backend           *)
(* (src/backend/main.py, models.py, schemas.py): the events table, the     *)
(* reporting table and the request handlers that read and write them.      *)
(*                                                                         *)
(* Optional (nullable) values are encoded as sequences: None is <<>> and   *)
(* a present value v is <<v>>.  Dates and times are small integers, so     *)
(* that <= and = on them are the comparisons the SQL filters perform.      *)
(*                                                                         *)
(* A request handler is one atomic action where requests are served one    *)
(* after the other.  For requests served at the same time (the handlers    *)
(* are plain functions, which the framework runs on worker threads, each   *)
(* with its own database session) create_reporting_entry is split where    *)
(* it talks to the database: its queries, then its flush and commit; the   *)
(* variable sessions holds what a request has read so far.                 *)
(***************************************************************************)
EXTENDS Integers, Sequences, FiniteSets, TLC

VARIABLES events, categories, reporting, nextEventId, nextReportingId, last,
          sessions, users, tokens, bearer

vars == <<events, categories, reporting, nextEventId, nextReportingId, last,
          sessions, users, tokens, bearer>>

\* The users table, the access tokens issued so far and the bearer token
\* of the request being served.
auth == <<users, tokens, bearer>>

(* ------------------------------ bounds --------------------------------- *)

\* Number of event ids the store hands out under Spec, SpecInput and SpecRace.
MaxEvents == 1
\* Number of reporting ids the store hands out under Spec, SpecInput and
\* SpecRace.
MaxReporting == 2
\* Number of event ids the store hands out under SpecOverlap and SpecSlot.
MaxDetectEvents == 3
\* Number of reporting ids the store hands out under SpecOverlap and SpecSlot.
MaxDetectReporting == 1

(* ------------------------- program constants --------------------------- *)

\* Dummy event id of manual reporting rows (`reporting_in.event_id or 99`).
ManualEventId == 99

(* --------------------------- optional values --------------------------- *)

None == <<>>
Some(v) == <<v>>
Val(x) == x[1]

\* Python's `x or default` on an Optional[str]: None and "" are falsy.
StrOr(x, default) == IF x = None \/ x = Some("") THEN default ELSE Val(x)
\* Python's `x or default` on an int: 0 is falsy.
IntOr(x, default) == IF x = 0 THEN default ELSE x

(* ------------------------------ helpers -------------------------------- *)

\* A result list of a query without ORDER BY: the rows in any order.
RECURSIVE Perms(_)
Perms(S) ==
  IF S = {} THEN {<<>>}
  ELSE UNION {{<<x>> \o p : p \in Perms(S \ {x})} : x \in S}

MaxOf(S) == CHOOSE m \in S : \A x \in S : x <= m

\* The call record of a request that touched no reporting row.  before is
\* the event_title a row had when an event-backed submission replaced it,
\* result the list a report returned.
NoCall ==
  [op |-> "none", status |-> "none", event_id |-> 0, row |-> 0, branch |-> "none",
   pre |-> 0, input |-> None, vacation_title |-> None, holiday_title |-> None,
   special_value |-> None, special_titles |-> <<>>, prev |-> <<>>,
   before |-> None, result |-> <<>>]

Call(op, status) == [NoCall EXCEPT !.op = op, !.status = status]

\* The two requests that can be in progress at the same time.
SessionIds == {"s1", "s2"}

\* The session of a worker that serves no request.
NoSession ==
  [pc |-> "idle", reporting_in |-> None, id |-> 0, branch |-> "none",
   found |-> <<None, None>>, titles |-> <<>>, d |-> None, old |-> 0,
   loaded |-> None, raced |-> FALSE]

\* Number of event ids the store hands out under SpecTree.
MaxTreeEvents == 2
\* Number of users rows under SpecUsers.
MaxUsers == 2
\* Number of reporting ids the store hands out under SpecAuth.
MaxAuthReporting == 1

(* ------------------------------ models.py ------------------------------ *)

\* categories table after the category names the reporting code looks for
\* have been created (name is unique).
CategoryTable ==
  [c \in 1..5 |->
     [name |-> CASE c = 1 -> "Ferien"
                 [] c = 2 -> "Feiertag"
                 [] c = 3 -> "Lobpreisabend"
                 [] c = 4 -> "Special"
                 [] OTHER -> "Sonstiges"]]

\* planning_levels table (name is unique).
PlanningLevelTable ==
  [l \in 1..2 |-> [name |-> CASE l = 1 -> "Gemeinde" [] OTHER -> "Jugend"]]

\* Event(**data): the columns of a new events row.
Event(data) ==
  [title |-> data.title, parent_id |-> data.parent_id, link_id |-> data.link_id,
   start_date |-> data.start_date, end_date |-> data.end_date,
   start_time |-> data.start_time, categories |-> {}, planning_levels |-> {}]

\* Foreign keys of an events row.
EventRowOk(evs, row) ==
  /\ row.parent_id = None \/ Val(row.parent_id) \in DOMAIN evs
  /\ row.link_id = None \/ Val(row.link_id) \in DOMAIN evs

\* Reporting(...): the columns of a new reporting row.
Reporting(event_id, event_title, event_date, start_time, visitor, vacation, holiday, special) ==
  [event_id |-> event_id, event_title |-> event_title, event_date |-> event_date,
   event_start_time |-> start_time, visitor |-> visitor,
   vacation |-> vacation, holiday |-> holiday, special |-> special]

\* Foreign key reporting.event_id -> events.id.
ReportingRowOk(evs, row) == row.event_id \in DOMAIN evs

\* {c.name for c in (other.categories or [])}
cat_names(cats, other) == {cats[c].name : c \in other.categories}

\* db.query(models.Category).filter(models.Category.id.in_(category_ids)).all()
CategoriesIn(cats, category_ids) == {c \in DOMAIN cats : c \in category_ids}

\* db.query(models.PlanningLevel).filter(models.PlanningLevel.id.in_(ids)).all()
PlanningLevelsIn(planning_level_ids) ==
  {l \in DOMAIN PlanningLevelTable : l \in planning_level_ids}

(* ------------------------------ schemas.py ----------------------------- *)

\* ReportingCreate: event_id and visitor are required ints.
ReportingCreateValid(reporting_in) ==
  reporting_in.event_id # None /\ reporting_in.visitor # None

(* ------------------- main.py: create_reporting_entry ------------------- *)

\* Variant of overlapping_events: the reported event is not filtered out.
overlapping_events_self(id, event_date) ==
  {o \in DOMAIN events :
     /\ events[o].start_date # None
     /\ Val(events[o].start_date) <= event_date}

\* Variant of overlapping_events: a NULL start_date passes the filter.
overlapping_events_null_start(id, event_date) ==
  {o \in DOMAIN events :
     /\ o # id
     /\ events[o].start_date = None \/ Val(events[o].start_date) <= event_date}

\* db.query(Event).filter(Event.id != event.id)
\*   .filter(Event.start_date <= event_date).all(), as a set of ids.
\* A NULL start_date never satisfies the SQL comparison.
overlapping_events(id, event_date) ==
  {o \in DOMAIN events :
     /\ o # id
     /\ events[o].start_date # None
     /\ Val(events[o].start_date) <= event_date}

\* Variant of EndedBefore: an event without end date ends on its start date.
EndedBefore_single_day(other, event_date) ==
  IF other.end_date # None
  THEN Val(other.end_date) < event_date
  ELSE Val(other.start_date) < event_date

\* The skip test of the loop over overlapping_events.
EndedBefore(other, event_date) ==
  other.end_date # None /\ Val(other.end_date) < event_date

\* Variant of OverlapLoop: events that ended before the date are not skipped.
RECURSIVE OverlapLoop_no_skip(_, _, _, _)
OverlapLoop_no_skip(order, event_date, i, acc) ==
  IF i > Len(order) THEN acc
  ELSE LET other == events[order[i]]
           names == cat_names(categories, other)
           vacation_title ==
             IF "Ferien" \in names /\ acc[1] = None THEN Some(other.title) ELSE acc[1]
           holiday_title ==
             IF "Feiertag" \in names /\ acc[2] = None THEN Some(other.title) ELSE acc[2]
       IN OverlapLoop_no_skip(order, event_date, i + 1, <<vacation_title, holiday_title>>)

\* The loop over overlapping_events, from position i of the result list,
\* carrying <<vacation_title, holiday_title>>.
RECURSIVE OverlapLoop(_, _, _, _)
OverlapLoop(order, event_date, i, acc) ==
  IF i > Len(order) THEN acc
  ELSE LET other == events[order[i]]
           names == cat_names(categories, other)
           vacation_title ==
             IF "Ferien" \in names /\ acc[1] = None THEN Some(other.title) ELSE acc[1]
           holiday_title ==
             IF "Feiertag" \in names /\ acc[2] = None THEN Some(other.title) ELSE acc[2]
       IN IF EndedBefore(other, event_date)
          THEN OverlapLoop(order, event_date, i + 1, acc)
          ELSE OverlapLoop(order, event_date, i + 1, <<vacation_title, holiday_title>>)

\* Variant of same_dt_events: the start time is not filtered on.
same_dt_events_any_time(id, event_date, event_time) ==
  {o \in DOMAIN events : o # id /\ events[o].start_date = Some(event_date)}

\* db.query(Event).filter(Event.id != event.id)
\*   .filter(Event.start_date == event_date)
\*   .filter(Event.start_time == event_time).all(), as a set of ids.
same_dt_events(id, event_date, event_time) ==
  {o \in DOMAIN events :
     /\ o # id
     /\ events[o].start_date = Some(event_date)
     /\ events[o].start_time = Some(event_time)}

\* The test that lets a same-slot event contribute its title.
IsSpecial(other) ==
  LET names == cat_names(categories, other)
  IN ("Lobpreisabend" \in names \/ "Special" \in names) /\ other.title # ""

\* The loop over same_dt_events: special_titles in result order.
RECURSIVE special_titles(_, _)
special_titles(order, i) ==
  IF i > Len(order) THEN <<>>
  ELSE IF IsSpecial(events[order[i]])
       THEN <<events[order[i]].title>> \o special_titles(order, i + 1)
       ELSE special_titles(order, i + 1)

\* The loop that removes duplicate titles, keeping first occurrences.
RECURSIVE DedupFrom(_, _, _)
DedupFrom(titles, i, seen) ==
  IF i > Len(titles) THEN <<>>
  ELSE IF titles[i] \notin seen
       THEN <<titles[i]>> \o DedupFrom(titles, i + 1, seen \cup {titles[i]})
       ELSE DedupFrom(titles, i + 1, seen)

\* Variant of deduped: duplicates are kept.
deduped_off(titles) == titles

deduped(titles) == DedupFrom(titles, 1, {})

\* ", ".join(titles)
RECURSIVE Join(_)
Join(titles) ==
  IF Len(titles) = 0 THEN ""
  ELSE IF Len(titles) = 1 THEN titles[1]
       ELSE titles[1] \o ", " \o Join(Tail(titles))

\* Variant of special_value: the titles are joined also when there are none.
special_value_always_joined(titles) == Some(Join(deduped(titles)))

\* special_value: the joined titles, or None when there are none.
special_value(titles) == IF titles # <<>> THEN Some(Join(deduped(titles))) ELSE None

\* Variant of Merge: the caller's value wins when there is one.
Merge_supplied_first(detected, supplied) ==
  IF supplied # None THEN supplied ELSE detected

\* The merge of an auto-detected value with the caller's value.
Merge(detected, supplied) == IF detected # None THEN detected ELSE supplied

\* Variant of existing: the lookup never finds a row.
existing_none(event_id) == 0

\* Variant of existing: the lookup orders by id ascending.
existing_oldest(event_id) ==
  LET rows == {r \in DOMAIN reporting : reporting[r].event_id = event_id}
  IN IF rows = {} THEN 0 ELSE CHOOSE m \in rows : \A x \in rows : m <= x

\* db.query(Reporting).filter(Reporting.event_id == event.id)
\*   .order_by(Reporting.id.desc()).first(): the row id, or 0 for no row.
existing(event_id) ==
  LET rows == {r \in DOMAIN reporting : reporting[r].event_id = event_id}
  IN IF rows = {} THEN 0 ELSE MaxOf(rows)

RowsOf(rep, event_id) == {r \in DOMAIN rep : rep[r].event_id = event_id}

\* db.add(row); db.commit(): the sequence hands out the id before the
\* foreign key is checked, so a rejected insert still uses it up.
InsertReporting(row, call) ==
  /\ nextReportingId' = nextReportingId + 1
  /\ IF ReportingRowOk(events, row)
     THEN /\ reporting' = (nextReportingId :> row) @@ reporting
          /\ last' = [call EXCEPT !.status = "200", !.row = nextReportingId]
     ELSE /\ reporting' = reporting
          /\ last' = [call EXCEPT !.status = "500"]

\* The fallback branch: no Event has the id.
ManualBranch(reporting_in, call) ==
  LET manual_event_id == IntOr(Val(reporting_in.event_id), ManualEventId)
      title_value == StrOr(reporting_in.event_title, "")
  IN InsertReporting(
       Reporting(manual_event_id, title_value, reporting_in.event_date,
                 reporting_in.event_start_time, reporting_in.visitor,
                 reporting_in.vacation, reporting_in.holiday, reporting_in.special),
       [call EXCEPT !.branch = "manual", !.event_id = manual_event_id,
                    !.pre = Cardinality(RowsOf(reporting, manual_event_id))])

\* The fields both the update and the insert of the event branch write.
Derived(event, reporting_in, vacation_title, holiday_title, special) ==
  Reporting(0, event.title, event.start_date, event.start_time,
            reporting_in.visitor,
            Merge(vacation_title, reporting_in.vacation),
            Merge(holiday_title, reporting_in.holiday),
            Merge(special, reporting_in.special))

\* Variant of UpdateExisting: the snapshot fields are left as they were.
UpdateExisting_keep_snapshot(row, d) ==
  [row EXCEPT !.visitor = d.visitor, !.vacation = d.vacation,
              !.holiday = d.holiday, !.special = d.special]

\* The update of the latest row of the event.
UpdateExisting(row, d) ==
  [row EXCEPT !.event_title = d.event_title, !.event_date = d.event_date,
              !.event_start_time = d.event_start_time, !.visitor = d.visitor,
              !.vacation = d.vacation, !.holiday = d.holiday, !.special = d.special]

\* What the call record of an event-backed submission keeps of the call
\* before it: the row and the earlier row count, when that call was an
\* event-backed submission for the same event, else nothing.
PrevOf(id) ==
  IF /\ last.op = "create_reporting_entry"
     /\ last.branch \in {"insert", "update"}
     /\ last.event_id = id
  THEN <<last.row, last.pre>>
  ELSE <<>>

\* The standard branch: the Event exists.  found is the pair
\* <<vacation_title, holiday_title>> the first loop ends with and titles
\* the special_titles the second loop ends with.
EventBranch(id, reporting_in, call, found, titles) ==
  LET event == events[id]
      special == special_value(titles)
      d == Derived(event, reporting_in, found[1], found[2], special)
      old == existing(id)
      c == [call EXCEPT !.vacation_title = found[1], !.holiday_title = found[2],
                        !.special_value = special, !.special_titles = titles,
                        !.prev = PrevOf(id)]
  IN IF old # 0
     THEN /\ reporting' = [reporting EXCEPT ![old] = UpdateExisting(@, d)]
          /\ last' = [c EXCEPT !.status = "200", !.row = old, !.branch = "update",
                                !.before = Some(reporting[old].event_title)]
          /\ UNCHANGED nextReportingId
     ELSE InsertReporting([d EXCEPT !.event_id = id], [c EXCEPT !.branch = "insert"])

\* What the loop over overlapping_events can end with: the query has no
\* ORDER BY, so the result list is the matching rows in any order.
OverlapResults(id) ==
  IF events[id].start_date # None
  THEN {OverlapLoop(order, Val(events[id].start_date), 1, <<None, None>>) :
          order \in Perms(overlapping_events(id, Val(events[id].start_date)))}
  ELSE {<<None, None>>}

\* Variant of SpecialResults: the same-slot query runs whenever the event
\* has a start time, with or without a start date.
SpecialResults_no_date_guard(id) ==
  IF events[id].start_time # None
  THEN {special_titles(order, 1) :
          order \in Perms({o \in DOMAIN events :
                             /\ o # id
                             /\ events[o].start_date = events[id].start_date
                             /\ events[o].start_time = events[id].start_time})}
  ELSE {<<>>}

\* What the loop over same_dt_events can end with, likewise.
SpecialResults(id) ==
  IF events[id].start_date # None /\ events[id].start_time # None
  THEN {special_titles(order, 1) :
          order \in Perms(same_dt_events(id, Val(events[id].start_date),
                                         Val(events[id].start_time)))}
  ELSE {<<>>}

\* POST /reporting
create_reporting_entry(reporting_in) ==
  /\ UNCHANGED <<auth, events, categories, nextEventId, sessions>>
  /\ IF ~ReportingCreateValid(reporting_in)
     THEN /\ last' = [Call("create_reporting_entry", "422") EXCEPT !.input = Some(reporting_in)]
          /\ UNCHANGED <<reporting, nextReportingId>>
     ELSE LET id == Val(reporting_in.event_id)
              call == [Call("create_reporting_entry", "200") EXCEPT
                         !.event_id = id, !.input = Some(reporting_in),
                         !.pre = Cardinality(RowsOf(reporting, id))]
          IN IF id \notin DOMAIN events
             THEN ManualBranch(reporting_in, call)
             ELSE \E found \in OverlapResults(id), titles \in SpecialResults(id) :
                    EventBranch(id, reporting_in, call, found, titles)

(* ------- main.py: create_reporting_entry, one database step each ------- *)

\* The UPDATE the flush emits for a row the session has loaded: the unit of
\* work compares each assigned attribute with the value that was loaded and
\* writes only the columns whose value changed; every other column keeps
\* what the table holds at that time.
Flushed(loaded, target, current) ==
  [c \in DOMAIN current |-> IF target[c] # loaded[c] THEN target[c] ELSE current[c]]

\* The queries of the handler, up to the lookup of the existing row, in
\* the session of worker s.  The response is not produced yet.
Lookup(s, reporting_in) ==
  /\ sessions[s].pc = "idle"
  /\ UNCHANGED <<auth, events, categories, reporting, nextEventId, nextReportingId>>
  /\ IF ~ReportingCreateValid(reporting_in)
     THEN /\ last' = [Call("create_reporting_entry", "422") EXCEPT !.input = Some(reporting_in)]
          /\ UNCHANGED sessions
     ELSE /\ UNCHANGED last
          /\ LET id == Val(reporting_in.event_id)
                 se == [NoSession EXCEPT !.pc = "loaded", !.reporting_in = Some(reporting_in)]
             IN IF id \notin DOMAIN events
                THEN sessions' =
                       [sessions EXCEPT ![s] =
                          [se EXCEPT
                             !.id = IntOr(id, ManualEventId), !.branch = "manual",
                             !.d = Some(Reporting(IntOr(id, ManualEventId),
                                          StrOr(reporting_in.event_title, ""),
                                          reporting_in.event_date,
                                          reporting_in.event_start_time,
                                          reporting_in.visitor, reporting_in.vacation,
                                          reporting_in.holiday, reporting_in.special))]]
                ELSE \E found \in OverlapResults(id), titles \in SpecialResults(id) :
                       LET d == Derived(events[id], reporting_in, found[1], found[2],
                                        special_value(titles))
                           old == existing(id)
                       IN sessions' =
                            [sessions EXCEPT ![s] =
                               [se EXCEPT
                                  !.id = id,
                                  !.branch = IF old # 0 THEN "update" ELSE "insert",
                                  !.found = found, !.titles = titles,
                                  !.d = Some([d EXCEPT !.event_id = id]),
                                  !.old = old,
                                  !.loaded = IF old # 0 THEN Some(reporting[old]) ELSE None]]

\* The assignments, db.add and db.commit() of the handler in the session of
\* worker s: one UPDATE or INSERT and the COMMIT.  The row lock of the
\* UPDATE is held until the COMMIT, so no other write to the row falls in
\* between.  A session that has made the same lookup for the same event
\* (the same latest row, or no row) and has not committed yet is marked:
\* it was overtaken.
Commit(s) ==
  /\ sessions[s].pc = "loaded"
  /\ UNCHANGED <<auth, events, categories, nextEventId>>
  /\ LET se == sessions[s]
         d == Val(se.d)
         call == [Call("create_reporting_entry", "200") EXCEPT
                    !.event_id = se.id, !.input = se.reporting_in,
                    !.branch = se.branch,
                    !.pre = Cardinality(RowsOf(reporting, se.id)),
                    !.vacation_title = se.found[1], !.holiday_title = se.found[2],
                    !.special_value = special_value(se.titles),
                    !.special_titles = se.titles,
                    !.prev = IF se.raced THEN <<"overtaken">> ELSE <<>>]
     IN /\ sessions' =
             [t \in SessionIds |->
                IF t = s THEN NoSession
                ELSE IF /\ se.branch \in {"insert", "update"}
                        /\ sessions[t].branch = se.branch
                        /\ sessions[t].id = se.id /\ sessions[t].old = se.old
                     THEN [sessions[t] EXCEPT !.raced = TRUE]
                     ELSE sessions[t]]
        /\ IF se.branch = "update"
           THEN /\ UNCHANGED nextReportingId
                /\ IF se.old \in DOMAIN reporting
                   THEN /\ reporting' =
                             [reporting EXCEPT ![se.old] =
                                Flushed(Val(se.loaded),
                                        UpdateExisting(Val(se.loaded), d), @)]
                        /\ last' = [call EXCEPT !.row = se.old]
                   ELSE /\ UNCHANGED reporting
                        /\ last' = [call EXCEPT !.status = "500"]
           ELSE InsertReporting(d, call)

(* --------------------- main.py: the other handlers --------------------- *)

\* POST /reporting/manual
create_reporting_entry_manual(reporting_in) ==
  /\ UNCHANGED <<auth, events, categories, nextEventId, sessions>>
  /\ IF ~ReportingCreateValid(reporting_in)
     THEN /\ last' = [Call("create_reporting_entry_manual", "422") EXCEPT
                        !.input = Some(reporting_in)]
          /\ UNCHANGED <<reporting, nextReportingId>>
     ELSE LET event_id == IntOr(Val(reporting_in.event_id), ManualEventId)
              title_value == StrOr(reporting_in.event_title, "")
          IN InsertReporting(
               Reporting(event_id, title_value, reporting_in.event_date,
                         reporting_in.event_start_time, reporting_in.visitor,
                         reporting_in.vacation, reporting_in.holiday,
                         reporting_in.special),
               [Call("create_reporting_entry_manual", "200") EXCEPT
                  !.event_id = event_id, !.input = Some(reporting_in),
                  !.pre = Cardinality(RowsOf(reporting, event_id)),
                  !.branch = "manual"])

\* One `if reporting_in.f is not None: reporting.f = reporting_in.f`.
Keep(new, old) == IF new # None THEN new ELSE old

\* Variant of update_reporting_entry: visitor is assigned without the
\* `is not None` test, as the upsert of create_reporting_entry does.
update_reporting_entry_visitor_always(reporting_id, reporting_in) ==
  /\ UNCHANGED <<auth, events, categories, nextEventId, nextReportingId, sessions>>
  /\ IF reporting_id \notin DOMAIN reporting
     THEN /\ last' = Call("update_reporting_entry", "404")
          /\ UNCHANGED reporting
     ELSE /\ reporting' =
               [reporting EXCEPT ![reporting_id] =
                  [@ EXCEPT
                     !.visitor = reporting_in.visitor,
                     !.event_title = Val(Keep(reporting_in.event_title, Some(@))),
                     !.event_date = Keep(reporting_in.event_date, @),
                     !.event_start_time = Keep(reporting_in.event_start_time, @),
                     !.vacation = Keep(reporting_in.vacation, @),
                     !.holiday = Keep(reporting_in.holiday, @),
                     !.special = Keep(reporting_in.special, @)]]
          /\ last' = [Call("update_reporting_entry", "200") EXCEPT
                        !.row = reporting_id, !.input = Some(reporting_in),
                        !.event_id = reporting[reporting_id].event_id]

\* PUT /reporting/{reporting_id}
update_reporting_entry(reporting_id, reporting_in) ==
  /\ UNCHANGED <<auth, events, categories, nextEventId, nextReportingId, sessions>>
  /\ IF reporting_id \notin DOMAIN reporting
     THEN /\ last' = Call("update_reporting_entry", "404")
          /\ UNCHANGED reporting
     ELSE /\ reporting' =
               [reporting EXCEPT ![reporting_id] =
                  [@ EXCEPT
                     !.visitor = Keep(reporting_in.visitor, @),
                     !.event_title = Val(Keep(reporting_in.event_title, Some(@))),
                     !.event_date = Keep(reporting_in.event_date, @),
                     !.event_start_time = Keep(reporting_in.event_start_time, @),
                     !.vacation = Keep(reporting_in.vacation, @),
                     !.holiday = Keep(reporting_in.holiday, @),
                     !.special = Keep(reporting_in.special, @)]]
          /\ last' = [Call("update_reporting_entry", "200") EXCEPT
                        !.row = reporting_id, !.input = Some(reporting_in),
                        !.event_id = reporting[reporting_id].event_id]

\* Variant of delete_reporting_entry: the delete filters on the row's
\* event_id, so every row of that event goes.
delete_reporting_entry_by_event(reporting_id) ==
  /\ UNCHANGED <<auth, events, categories, nextEventId, nextReportingId, sessions>>
  /\ IF reporting_id \notin DOMAIN reporting
     THEN /\ last' = Call("delete_reporting_entry", "404")
          /\ UNCHANGED reporting
     ELSE /\ reporting' =
               [r \in DOMAIN reporting \
                       RowsOf(reporting, reporting[reporting_id].event_id) |->
                  reporting[r]]
          /\ last' = [Call("delete_reporting_entry", "204") EXCEPT
                        !.row = reporting_id,
                        !.event_id = reporting[reporting_id].event_id]

\* DELETE /reporting/{reporting_id}
delete_reporting_entry(reporting_id) ==
  /\ UNCHANGED <<auth, events, categories, nextEventId, nextReportingId, sessions>>
  /\ IF reporting_id \notin DOMAIN reporting
     THEN /\ last' = Call("delete_reporting_entry", "404")
          /\ UNCHANGED reporting
     ELSE /\ reporting' = [r \in DOMAIN reporting \ {reporting_id} |-> reporting[r]]
          /\ last' = [Call("delete_reporting_entry", "204") EXCEPT
                        !.row = reporting_id,
                        !.event_id = reporting[reporting_id].event_id]

\* POST /events: the row is committed first, the categories are attached
\* in a second commit.  A rejected insert still uses up the id.
create_event(event_in) ==
  /\ UNCHANGED <<auth, categories, reporting, nextReportingId, sessions>>
  /\ nextEventId' = nextEventId + 1
  /\ LET event == Event(event_in)
     IN IF EventRowOk(events, event)
        THEN /\ events' =
                  (nextEventId :>
                     [event EXCEPT
                        !.categories =
                          IF event_in.category_ids # {}
                          THEN CategoriesIn(categories, event_in.category_ids)
                          ELSE {},
                        !.planning_levels =
                          IF event_in.planning_level_ids # {}
                          THEN PlanningLevelsIn(event_in.planning_level_ids)
                          ELSE {}]) @@ events
             /\ last' = [Call("create_event", "200") EXCEPT !.event_id = nextEventId]
        ELSE /\ events' = events
             /\ last' = Call("create_event", "500")

\* setattr(event, field, value) for the fields sent (exclude_unset).
Sent(event_in, field, old) == IF field \in DOMAIN event_in THEN event_in[field] ELSE old

\* Variant of Relation: an empty list is treated like None.
Relation_empty_keeps(ids, stored, old) ==
  IF ids # None /\ Val(ids) # {} THEN stored ELSE old

\* if ids is not None: event.rel = query(...).all() if ids else []
\* stored is what the query for ids returns.
Relation(ids, stored, old) ==
  IF ids # None
  THEN IF Val(ids) # {} THEN stored ELSE {}
  ELSE old

\* PUT /events/{event_id}
update_event(event_id, event_in) ==
  /\ UNCHANGED <<auth, categories, reporting, nextEventId, nextReportingId, sessions>>
  /\ IF event_id \notin DOMAIN events
     THEN /\ last' = Call("update_event", "404")
          /\ UNCHANGED events
     ELSE LET old == events[event_id]
              title == Sent(event_in, "title", Some(old.title))
              category_ids == Sent(event_in, "category_ids", None)
              planning_level_ids == Sent(event_in, "planning_level_ids", None)
              event ==
                [title |-> IF title # None THEN Val(title) ELSE "",
                 parent_id |-> Sent(event_in, "parent_id", old.parent_id),
                 link_id |-> Sent(event_in, "link_id", old.link_id),
                 start_date |-> Sent(event_in, "start_date", old.start_date),
                 end_date |-> Sent(event_in, "end_date", old.end_date),
                 start_time |-> Sent(event_in, "start_time", old.start_time),
                 categories |->
                   Relation(category_ids,
                            IF category_ids # None
                            THEN CategoriesIn(categories, Val(category_ids)) ELSE {},
                            old.categories),
                 planning_levels |->
                   Relation(planning_level_ids,
                            IF planning_level_ids # None
                            THEN PlanningLevelsIn(Val(planning_level_ids)) ELSE {},
                            old.planning_levels)]
          IN IF title # None /\ EventRowOk(events, event)
             THEN /\ events' = [events EXCEPT ![event_id] = event]
                  /\ last' = [Call("update_event", "200") EXCEPT
                                !.event_id = event_id, !.input = Some(event_in)]
             ELSE /\ events' = events
                  /\ last' = [Call("update_event", "500") EXCEPT
                                !.event_id = event_id, !.input = Some(event_in)]

\* Variant of delete_event: the event's reporting rows are deleted with it
\* (a delete cascade on the reporting_entries relationship).
delete_event_cascade(event_id) ==
  /\ UNCHANGED <<auth, categories, nextEventId, nextReportingId, sessions>>
  /\ IF event_id \notin DOMAIN events
     THEN /\ last' = Call("delete_event", "404")
          /\ UNCHANGED <<events, reporting>>
     ELSE IF \E o \in DOMAIN events : events[o].link_id = Some(event_id)
          THEN /\ last' = [Call("delete_event", "500") EXCEPT !.event_id = event_id]
               /\ UNCHANGED <<events, reporting>>
          ELSE /\ events' =
                    [o \in DOMAIN events \ {event_id} |->
                       IF events[o].parent_id = Some(event_id)
                       THEN [events[o] EXCEPT !.parent_id = None]
                       ELSE events[o]]
               /\ reporting' =
                    [r \in DOMAIN reporting \ RowsOf(reporting, event_id) |->
                       reporting[r]]
               /\ last' = [Call("delete_event", "200") EXCEPT !.event_id = event_id]

\* DELETE /events/{event_id}: the unit of work sets reporting.event_id of
\* the event's reporting_entries and parent_id of its children to NULL
\* before the DELETE; reporting.event_id is NOT NULL, and link_id of
\* another event still referencing the row violates its foreign key.
delete_event(event_id) ==
  /\ UNCHANGED <<auth, categories, reporting, nextEventId, nextReportingId, sessions>>
  /\ IF event_id \notin DOMAIN events
     THEN /\ last' = Call("delete_event", "404")
          /\ UNCHANGED events
     ELSE IF \/ RowsOf(reporting, event_id) # {}
             \/ \E o \in DOMAIN events : events[o].link_id = Some(event_id)
          THEN /\ last' = [Call("delete_event", "500") EXCEPT !.event_id = event_id]
               /\ UNCHANGED events
          ELSE /\ events' =
                    [o \in DOMAIN events \ {event_id} |->
                       IF events[o].parent_id = Some(event_id)
                       THEN [events[o] EXCEPT !.parent_id = None]
                       ELSE events[o]]
               /\ last' = [Call("delete_event", "200") EXCEPT !.event_id = event_id]

(* ------------------------------ event tree ----------------------------- *)

\* date.max and time.max: later than every date and time of the model.
date_max == 99
time_max == 24

\* event.children: the events whose parent_id is the event's id.
children(id) == {c \in DOMAIN events : events[c].parent_id = Some(id)}

\* Python's `x or default` on a date or a time: only None is falsy.
DateOr(x, default) == IF x = None THEN default ELSE Val(x)

\* _child_sort_key(e) inside build_event_node(event)
child_sort_key(e, event) ==
  <<DateOr(events[e].start_date, DateOr(events[event].start_date, date_max)),
    DateOr(events[e].start_time, DateOr(events[event].start_time, time_max)), e>>

\* Tuple comparison of two sort keys.
KeyLess(a, b) ==
  \/ a[1] < b[1]
  \/ a[1] = b[1] /\ (a[2] < b[2] \/ (a[2] = b[2] /\ a[3] < b[3]))

\* sorted(event.children, key=_child_sort_key)
RECURSIVE children_sorted(_, _)
children_sorted(S, event) ==
  IF S = {} THEN <<>>
  ELSE LET first == CHOOSE a \in S : \A b \in S \ {a} :
                      KeyLess(child_sort_key(a, event), child_sort_key(b, event))
       IN <<first>> \o children_sorted(S \ {first}, event)

\* build_event_node(event): the id and the children of the nested dict.
RECURSIVE build_event_node(_)
build_event_node(event) ==
  LET sorted == children_sorted(children(event), event)
  IN [id |-> event, title |-> events[event].title,
      children |-> [i \in 1..Len(sorted) |-> build_event_node(sorted[i])]]

\* x sorts before y in an ascending ORDER BY of a nullable column (NULLs
\* come last in PostgreSQL's ASC order).
AscBefore(x, y) == IF x = None \/ y = None THEN x # None /\ y = None ELSE Val(x) < Val(y)

\* order_by(Event.start_date, Event.start_time, Event.id)
RootBefore(a, b) ==
  \/ AscBefore(events[a].start_date, events[b].start_date)
  \/ /\ events[a].start_date = events[b].start_date
     /\ \/ AscBefore(events[a].start_time, events[b].start_time)
        \/ events[a].start_time = events[b].start_time /\ a < b

RECURSIVE roots(_)
roots(S) ==
  IF S = {} THEN <<>>
  ELSE LET first == CHOOSE a \in S : \A b \in S \ {a} : RootBefore(a, b)
       IN <<first>> \o roots(S \ {first})

\* GET /events/tree
get_event_tree ==
  /\ UNCHANGED <<auth, events, categories, reporting, nextEventId, nextReportingId, sessions>>
  /\ LET top == roots({e \in DOMAIN events : events[e].parent_id = None})
     IN last' = [Call("get_event_tree", "200") EXCEPT
                   !.result = [i \in 1..Len(top) |-> build_event_node(top[i])]]

(* ------------------------- requests and inputs ------------------------- *)

(* -------------------------------- users -------------------------------- *)

\* User(...): the columns of a users row.
User(username, password_hash, role, is_active) ==
  [username |-> username, password_hash |-> password_hash, role |-> role,
   is_active |-> is_active]

\* pwd_context.hash and pwd_context.verify
get_password_hash(password) == <<"pbkdf2_sha256", password>>
verify_password(plain_password, hashed_password) ==
  hashed_password = get_password_hash(plain_password)

\* The users table after create_admin.py has run once.
AdminOnly == (1 :> User("admin", get_password_hash("admin-pass"), "admin", TRUE))

\* jwt.encode of the claims sub and role; valid says whether jwt.decode
\* accepts the token (signature right and exp not passed) when presented.
create_access_token(data) == [sub |-> data.sub, role |-> data.role, valid |-> TRUE]

\* A request without a usable Authorization header.
NoBearer == [sub |-> "", role |-> "", valid |-> FALSE]

\* db.query(models.User).filter(models.User.username == username).first()
get_user_by_username(username) ==
  IF \E u \in DOMAIN users : users[u].username = username
  THEN Some(CHOOSE u \in DOMAIN users : users[u].username = username)
  ELSE None

\* Variant of get_current_user: the is_active flag is not looked at.
get_current_user_any_state(token) ==
  IF ~token.valid THEN [status |-> "401", user |-> 0]
  ELSE LET user == get_user_by_username(token.sub)
       IN IF user = None
          THEN [status |-> "401", user |-> 0]
          ELSE [status |-> "200", user |-> Val(user)]

\* The three dependencies: the status of the rejection, or 200 and the id
\* of the current user.
get_current_user(token) ==
  IF ~token.valid THEN [status |-> "401", user |-> 0]
  ELSE LET user == get_user_by_username(token.sub)
       IN IF user = None \/ ~users[Val(user)].is_active
          THEN [status |-> "401", user |-> 0]
          ELSE [status |-> "200", user |-> Val(user)]

get_current_admin(token) ==
  LET current_user == get_current_user(token)
  IN IF current_user.status = "200" /\ users[current_user.user].role # "admin"
     THEN [status |-> "403", user |-> 0]
     ELSE current_user

\* Variant of get_current_welcome: every active user passes.
get_current_welcome_any_role(token) == get_current_user(token)

get_current_welcome(token) ==
  LET current_user == get_current_user(token)
  IN IF /\ current_user.status = "200"
        /\ users[current_user.user].role \notin {"welcome", "admin"}
     THEN [status |-> "403", user |-> 0]
     ELSE current_user

\* A client sends its next request with this token; expired or forged
\* tokens do not decode.
Present(token, valid) ==
  /\ bearer' = [token EXCEPT !.valid = valid]
  /\ UNCHANGED <<events, categories, reporting, nextEventId, nextReportingId,
                 last, sessions, users, tokens>>

\* What the call record of a rejected request keeps of the call before
\* it: the user and the is_active value of a successful update_user.
UpdateBefore ==
  IF last.op = "update_user" /\ last.status = "200"
  THEN <<Val(last.input).user_id, Val(last.input).payload.is_active>>
  ELSE <<>>

\* A dependency raised: the handler does not run.
Rejected(op, status) ==
  /\ last' = [Call(op, status) EXCEPT !.prev = UpdateBefore]
  /\ UNCHANGED <<events, categories, reporting, nextEventId, nextReportingId,
                 sessions, users, tokens, bearer>>

\* POST /auth/login
login(username, password) ==
  /\ UNCHANGED <<events, categories, reporting, nextEventId, nextReportingId,
                 sessions, users, bearer>>
  /\ LET user == get_user_by_username(username)
     IN IF user = None \/ ~verify_password(password, users[Val(user)].password_hash)
        THEN /\ last' = Call("login", "401")
             /\ UNCHANGED tokens
        ELSE /\ last' = Call("login", "200")
             /\ tokens' = tokens \cup
                  {create_access_token([sub |-> users[Val(user)].username,
                                        role |-> users[Val(user)].role])}

\* str.strip() on the usernames of the model.
strip(s) == CASE s = " w " -> "w" [] s = " " -> "" [] OTHER -> s

Roles == {"admin", "viewer", "welcome"}

\* POST /users, reached as an admin.
create_user(payload) ==
  /\ UNCHANGED <<events, categories, reporting, nextEventId, nextReportingId,
                 sessions, tokens, bearer>>
  /\ LET username == strip(payload.username)
     IN IF \/ username = ""
           \/ payload.role \notin Roles
           \/ Len(payload.password) < 6
           \/ get_user_by_username(username) # None
        THEN /\ last' = [Call("create_user", "400") EXCEPT !.input = Some(payload)]
             /\ UNCHANGED users
        ELSE /\ users' = users @@
                  ((MaxOf(DOMAIN users) + 1) :>
                     User(username, get_password_hash(payload.password),
                          payload.role, payload.is_active))
             /\ last' = [Call("create_user", "200") EXCEPT !.input = Some(payload)]

\* The user object of update_user's session after the assignments that
\* come before the password check, and after all of them.
RoleAndActiveSet(user, payload) ==
  [user EXCEPT !.role = Val(Keep(payload.role, Some(@))),
               !.is_active = Val(Keep(payload.is_active, Some(@)))]
AllSet(user, payload) ==
  IF payload.password = None THEN RoleAndActiveSet(user, payload)
  ELSE [RoleAndActiveSet(user, payload) EXCEPT
          !.password_hash = get_password_hash(Val(payload.password))]

\* Variant of update_user: the session is committed on the way out even
\* when the password check raised.
update_user_commit_on_error(current_admin, user_id, payload) ==
  /\ UNCHANGED <<events, categories, reporting, nextEventId, nextReportingId,
                 sessions, tokens, bearer>>
  /\ LET rec(status) == [Call("update_user", status) EXCEPT
                          !.input = Some([user_id |-> user_id, payload |-> payload])]
     IN IF user_id \notin DOMAIN users
        THEN last' = rec("404") /\ UNCHANGED users
        ELSE IF user_id = current_admin /\ payload.is_active = Some(FALSE)
        THEN last' = rec("400") /\ UNCHANGED users
        ELSE IF payload.role # None /\ Val(payload.role) \notin Roles
        THEN last' = rec("400") /\ UNCHANGED users
        ELSE IF payload.password # None /\ Len(Val(payload.password)) < 6
        THEN /\ last' = rec("400")
             /\ users' = [users EXCEPT ![user_id] = RoleAndActiveSet(@, payload)]
        ELSE /\ last' = rec("200")
             /\ users' = [users EXCEPT ![user_id] = AllSet(@, payload)]

\* PUT /users/{user_id}, reached as the admin current_admin.  An
\* HTTPException leaves the handler before db.commit(); get_db closes the
\* session, which discards the assignments made so far.
update_user(current_admin, user_id, payload) ==
  /\ UNCHANGED <<events, categories, reporting, nextEventId, nextReportingId,
                 sessions, tokens, bearer>>
  /\ LET rec(status) == [Call("update_user", status) EXCEPT
                          !.input = Some([user_id |-> user_id, payload |-> payload])]
     IN IF user_id \notin DOMAIN users
        THEN last' = rec("404") /\ UNCHANGED users
        ELSE IF user_id = current_admin /\ payload.is_active = Some(FALSE)
        THEN last' = rec("400") /\ UNCHANGED users
        ELSE IF payload.role # None /\ Val(payload.role) \notin Roles
        THEN last' = rec("400") /\ UNCHANGED users
        ELSE IF payload.password # None /\ Len(Val(payload.password)) < 6
        THEN last' = rec("400") /\ UNCHANGED users
        ELSE /\ last' = rec("200")
             /\ users' = [users EXCEPT ![user_id] = AllSet(@, payload)]

(* ------------------------------- reports ------------------------------- *)

\* Two decimal digits of a day of the month or an hour.
TwoDigits(n) == (IF n < 10 THEN "0" ELSE "") \o ToString(n)

\* date.isoformat() of a day of the model's month, time.isoformat() of a
\* full hour.
date_isoformat(d) == "2025-01-" \o TwoDigits(d)
time_isoformat(t) == TwoDigits(t) \o ":00:00"

\* datetime.date(): a query parameter is a pair <<day, hour>>.
date_of(dt) == dt[1]

\* The optional filters on reporting.event_date; a comparison with a NULL
\* event_date is not true.
Filtered(start_date, end_date) ==
  {r \in DOMAIN reporting :
     /\ start_date # None =>
          /\ reporting[r].event_date # None
          /\ Val(reporting[r].event_date) >= date_of(Val(start_date))
     /\ end_date # None =>
          /\ reporting[r].event_date # None
          /\ Val(reporting[r].event_date) <= date_of(Val(end_date))}

\* x sorts before y in a descending ORDER BY of a nullable column (NULLs
\* come first in PostgreSQL's DESC order).
DescBefore(x, y) == IF x = None \/ y = None THEN x = None /\ y # None ELSE Val(x) > Val(y)

\* order_by(event_date.desc(), event_start_time.desc(), id.desc())
EntryBefore(a, b) ==
  LET ra == reporting[a]
      rb == reporting[b]
  IN \/ DescBefore(ra.event_date, rb.event_date)
     \/ /\ ra.event_date = rb.event_date
        /\ \/ DescBefore(ra.event_start_time, rb.event_start_time)
           \/ ra.event_start_time = rb.event_start_time /\ a > b

RECURSIVE Ordered(_)
Ordered(S) ==
  IF S = {} THEN <<>>
  ELSE LET first == CHOOSE a \in S : \A b \in S \ {a} : EntryBefore(a, b)
       IN <<first>> \o Ordered(S \ {first})

\* if visitors is None: continue
Skipped(entry) == entry.visitor = None

\* The dict appended for one entry.
ResultItem(id) ==
  LET entry == reporting[id]
  IN [id |-> id, event_id |-> entry.event_id,
      date |-> IF entry.event_date # None
               THEN date_isoformat(Val(entry.event_date)) ELSE "",
      title |-> entry.event_title,
      event_start_time |-> IF entry.event_start_time # None
                           THEN Some(time_isoformat(Val(entry.event_start_time)))
                           ELSE None,
      visitors |-> Val(entry.visitor),
      vacation |-> entry.vacation, holiday |-> entry.holiday,
      special |-> entry.special]

RECURSIVE Results(_)
Results(entries) ==
  IF entries = <<>> THEN <<>>
  ELSE (IF Skipped(reporting[Head(entries)]) THEN <<>>
        ELSE <<ResultItem(Head(entries))>>) \o Results(Tail(entries))

\* GET /reports/visitors-by-title
report_visitors_by_title(start_date, end_date) ==
  /\ UNCHANGED <<auth, events, categories, reporting, nextEventId, nextReportingId, sessions>>
  /\ last' = [Call("report_visitors_by_title", "200") EXCEPT
                !.input = Some([start_date |-> start_date, end_date |-> end_date]),
                !.result = Results(Ordered(Filtered(start_date, end_date)))]

EventIn(title, start_date, end_date, start_time, category_ids) ==
  [title |-> title, parent_id |-> None, link_id |-> None,
   start_date |-> start_date, end_date |-> end_date, start_time |-> start_time,
   category_ids |-> category_ids, planning_level_ids |-> {}]

ReportingIn(event_id, visitor, vacation, holiday, special, event_title, event_date, start_time) ==
  [event_id |-> event_id, visitor |-> visitor, vacation |-> vacation,
   holiday |-> holiday, special |-> special, event_title |-> event_title,
   event_date |-> event_date, event_start_time |-> start_time]

\* A submission that supplies only the visitor count.
Bare(event_id) == ReportingIn(Some(event_id), Some(0), None, None, None, None, None, None)
\* A submission that supplies every optional field.
Full(event_id) ==
  ReportingIn(Some(event_id), Some(7), Some("V"), Some("H"), Some("S"),
              Some("Manual"), Some(3), Some(2))

EventInputs ==
  { EventIn("A", Some(1), None, Some(1), {}) }

EventUpdates ==
  { "title" :> Some("B") @@ "start_date" :> Some(2) @@ "start_time" :> None }

\* Submissions for the event ids in use, for the falsy id 0 and for the
\* dummy id.
ReportingInputs ==
  UNION {{Bare(e), Full(e)} : e \in 1..MaxEvents} \cup {Bare(0), Full(ManualEventId)}

\* Manual rows for the event ids in use, for the falsy id 0 and for the
\* dummy id.
ManualInputs == {Full(e) : e \in 1..MaxEvents} \cup {Bare(0), Full(ManualEventId)}

ReportingUpdates ==
  { [visitor |-> None, event_title |-> Some("Edit"), event_date |-> None,
     event_start_time |-> None, vacation |-> None, holiday |-> None,
     special |-> None] }

(* ---------------------------- specification ---------------------------- *)

Init ==
  /\ events = <<>>
  /\ categories = CategoryTable
  /\ reporting = <<>>
  /\ nextEventId = 1
  /\ nextReportingId = 1
  /\ last = NoCall
  /\ sessions = [s \in SessionIds |-> NoSession]
  /\ users = AdminOnly
  /\ tokens = {}
  /\ bearer = NoBearer

Next ==
  \/ \E event_in \in EventInputs :
       create_event(event_in) /\ nextEventId' <= MaxEvents + 1
  \/ \E event_id \in 1..MaxEvents, event_in \in EventUpdates :
       update_event(event_id, event_in)
  \/ \E event_id \in 1..MaxEvents : delete_event(event_id)
  \/ \E reporting_in \in ReportingInputs :
       create_reporting_entry(reporting_in) /\ nextReportingId' <= MaxReporting + 1
  \/ \E reporting_in \in ManualInputs :
       create_reporting_entry_manual(reporting_in) /\ nextReportingId' <= MaxReporting + 1
  \/ \E reporting_id \in 1..MaxReporting, reporting_in \in ReportingUpdates :
       update_reporting_entry(reporting_id, reporting_in)
  \/ \E reporting_id \in 1..MaxReporting : delete_reporting_entry(reporting_id)

Spec == Init /\ [][Next]_vars

(* ----------- specifications of the auto-detection (bounded) ------------ *)

\* Events around the dates 1, 2, 3 with periods that contain, end before
\* or start after them.
OverlapEventInputs ==
  { EventIn("Godi", Some(2), Some(2), None, {}),
    EventIn("Sommerferien", Some(1), Some(3), None, {1}),
    EventIn("Herbstferien", Some(1), None, None, {1}),
    EventIn("Ostern", Some(1), Some(1), None, {1, 2}),
    EventIn("Pfingsten", Some(3), Some(3), None, {1, 2}),
    EventIn("Neujahr", Some(2), None, None, {2}) }

\* Events in and around the slot (date 2, time 1).
SlotEventInputs ==
  { EventIn("Godi", Some(2), None, Some(1), {5}),
    EventIn("Jugendgottesdienst", Some(2), None, Some(1), {2, 4}),
    EventIn("Lobpreis", Some(2), Some(2), Some(1), {3, 4}),
    EventIn("", Some(2), None, Some(1), {4}),
    EventIn("Jugendgottesdienst", Some(2), None, Some(2), {4}),
    EventIn("Freizeit", None, Some(3), Some(1), {1, 2, 4}),
    EventIn("Abend", Some(1), None, Some(1), {3}) }

\* The submissions report on the first event; the events created before and
\* after it are the candidates.
DetectReportingInputs == {Bare(1), Full(1)}

DetectSubmit ==
  \E reporting_in \in DetectReportingInputs :
    create_reporting_entry(reporting_in) /\ nextReportingId' <= MaxDetectReporting + 1

NextOverlap ==
  \/ \E event_in \in OverlapEventInputs :
       create_event(event_in) /\ nextEventId' <= MaxDetectEvents + 1
  \/ DetectSubmit

SpecOverlap == Init /\ [][NextOverlap]_vars

NextSlot ==
  \/ \E event_in \in SlotEventInputs :
       create_event(event_in) /\ nextEventId' <= MaxDetectEvents + 1
  \/ DetectSubmit

SpecSlot == Init /\ [][NextSlot]_vars

(* --------------- specification of the request payloads ----------------- *)

\* Request bodies of POST /reporting and POST /reporting/manual with
\* event_id, visitor and event_title absent, falsy or set.
InputPayloads ==
  {ReportingIn(event_id, visitor, None, None, None, event_title, None, None) :
     event_id \in {None, Some(0), Some(1), Some(ManualEventId)},
     visitor \in {None, Some(0), Some(7)},
     event_title \in {None, Some(""), Some("Manual")}}

NextInput ==
  \/ \E event_in \in EventInputs :
       create_event(event_in) /\ nextEventId' <= MaxEvents + 1
  \/ \E reporting_in \in InputPayloads :
       create_reporting_entry(reporting_in) /\ nextReportingId' <= MaxReporting + 1
  \/ \E reporting_in \in InputPayloads :
       create_reporting_entry_manual(reporting_in) /\ nextReportingId' <= MaxReporting + 1

SpecInput == Init /\ [][NextInput]_vars

(* ------------- specification of requests served in parallel ------------ *)

RaceInputs == {Bare(1), Full(1)}

NextRace ==
  \/ \E event_in \in EventInputs :
       create_event(event_in) /\ nextEventId' <= MaxEvents + 1
  \/ \E s \in SessionIds, reporting_in \in RaceInputs : Lookup(s, reporting_in)
  \/ \E s \in SessionIds : Commit(s) /\ nextReportingId' <= MaxReporting + 1

SpecRace == Init /\ [][NextRace]_vars

(* ------------ specification of the reporting table UI edits ------------ *)

ReportingUpdateIn(visitor, event_title, event_date, start_time, vacation, holiday, special) ==
  [visitor |-> visitor, event_title |-> event_title, event_date |-> event_date,
   event_start_time |-> start_time, vacation |-> vacation, holiday |-> holiday,
   special |-> special]

\* Bodies of PUT /reporting/{id}: nothing set, only a falsy visitor, an
\* empty title with a date, and every field set.
EditPayloads ==
  { ReportingUpdateIn(None, None, None, None, None, None, None),
    ReportingUpdateIn(Some(0), None, None, None, None, None, None),
    ReportingUpdateIn(None, Some(""), Some(2), None, None, None, None),
    ReportingUpdateIn(Some(5), Some("Edit"), Some(2), Some(3), Some("v"),
                      Some("h"), Some("s")) }

NextEdit ==
  \/ \E event_in \in EventInputs :
       create_event(event_in) /\ nextEventId' <= MaxEvents + 1
  \/ \E reporting_in \in DetectReportingInputs :
       create_reporting_entry(reporting_in) /\ nextReportingId' <= MaxReporting + 1
  \/ create_reporting_entry_manual(Full(1)) /\ nextReportingId' <= MaxReporting + 1
  \/ \E reporting_id \in 1..MaxReporting, reporting_in \in EditPayloads :
       update_reporting_entry(reporting_id, reporting_in)
  \/ \E reporting_id \in 1..MaxReporting : delete_reporting_entry(reporting_id)

SpecEdit == Init /\ [][NextEdit]_vars

(* ----------------- specification of the event editing ------------------ *)

\* An event with two categories and a planning level.
TaggedEventInputs ==
  { [EventIn("A", Some(1), None, Some(1), {1, 4}) EXCEPT !.planning_level_ids = {1}] }

\* Bodies of PUT /events/{id}: nothing sent; simple fields, one of them
\* null; each relation list null, empty, or with ids (9 is no stored id).
EventEdits ==
  { <<>>,
    "title" :> Some("B") @@ "start_date" :> None,
    "category_ids" :> None @@ "planning_level_ids" :> Some({}),
    "category_ids" :> Some({}),
    "category_ids" :> Some({1, 9}) @@ "planning_level_ids" :> Some({2}),
    "end_date" :> Some(2) @@ "planning_level_ids" :> None }

NextEvents ==
  \/ \E event_in \in TaggedEventInputs :
       create_event(event_in) /\ nextEventId' <= MaxEvents + 1
  \/ \E event_id \in 1..(MaxEvents + 1), event_in \in EventEdits :
       update_event(event_id, event_in)
  \/ \E event_id \in 1..MaxEvents : delete_event(event_id)

SpecEvents == Init /\ [][NextEvents]_vars

(* ------------------- specification of the event tree ------------------- *)

\* A dated root, an undated event and a sub-event of event 1.
TreeEventInputs ==
  { EventIn("A", Some(1), None, Some(1), {}),
    EventIn("B", None, None, None, {}),
    [EventIn("C", None, None, Some(2), {}) EXCEPT !.parent_id = Some(1)] }

\* Bodies of PUT /events/{id} that move an event below a parent or to the
\* top level.
ParentEdits ==
  {"parent_id" :> parent_id : parent_id \in {None} \cup {Some(p) : p \in 1..MaxTreeEvents}}

NextTree ==
  \/ \E event_in \in TreeEventInputs :
       create_event(event_in) /\ nextEventId' <= MaxTreeEvents + 1
  \/ \E event_id \in 1..MaxTreeEvents, event_in \in ParentEdits :
       update_event(event_id, event_in)
  \/ \E event_id \in 1..MaxTreeEvents : delete_event(event_id)
  \/ get_event_tree

SpecTree == Init /\ [][NextTree]_vars

(* ---------------------- specification of the report -------------------- *)

\* Rows of event 1 as the reporting table can hold them: event_date,
\* event_start_time and visitor are nullable columns.
StoredRows ==
  {Reporting(1, "A", d, t, v, None, None, None) :
     d \in {None, Some(1), Some(3)}, t \in {None, Some(2)},
     v \in {None, Some(0), Some(7)}}

\* The filter values of a report: none, or the hour 0 or 12 of day 2.
ReportFilters == {None, Some(<<2, 0>>), Some(<<2, 12>>)}

\* A database that holds event 1 and up to MaxReporting reporting rows.
InitReport ==
  /\ events = (1 :> Event(EventIn("A", Some(1), None, Some(1), {})))
  /\ categories = CategoryTable
  /\ \E n \in 0..MaxReporting : reporting \in [1..n -> StoredRows]
  /\ nextEventId = 2
  /\ nextReportingId = MaxReporting + 1
  /\ last = NoCall
  /\ sessions = [s \in SessionIds |-> NoSession]
  /\ users = AdminOnly
  /\ tokens = {}
  /\ bearer = NoBearer

NextReport ==
  \/ \E start_date \in ReportFilters, end_date \in ReportFilters :
       report_visitors_by_title(start_date, end_date)
  \/ \E reporting_id \in 1..MaxReporting : delete_reporting_entry(reporting_id)

SpecReport == InitReport /\ [][NextReport]_vars

(* --------------- specification of the guarded endpoints ---------------- *)

\* The routes with their dependencies: the handler runs for the current
\* user the dependency returns, else the dependency's status is the answer.
post_reporting(reporting_in) ==
  LET c == get_current_welcome(bearer)
  IN IF c.status = "200" THEN create_reporting_entry(reporting_in)
     ELSE Rejected("create_reporting_entry", c.status)

post_reporting_manual(reporting_in) ==
  LET c == get_current_admin(bearer)
  IN IF c.status = "200" THEN create_reporting_entry_manual(reporting_in)
     ELSE Rejected("create_reporting_entry_manual", c.status)

put_reporting(reporting_id, reporting_in) ==
  LET c == get_current_admin(bearer)
  IN IF c.status = "200" THEN update_reporting_entry(reporting_id, reporting_in)
     ELSE Rejected("update_reporting_entry", c.status)

delete_reporting(reporting_id) ==
  LET c == get_current_admin(bearer)
  IN IF c.status = "200" THEN delete_reporting_entry(reporting_id)
     ELSE Rejected("delete_reporting_entry", c.status)

get_reports(start_date, end_date) ==
  LET c == get_current_user(bearer)
  IN IF c.status = "200" THEN report_visitors_by_title(start_date, end_date)
     ELSE Rejected("report_visitors_by_title", c.status)

put_users(user_id, payload) ==
  LET c == get_current_admin(bearer)
  IN IF c.status = "200" THEN update_user(c.user, user_id, payload)
     ELSE Rejected("update_user", c.status)

UserCreateIn(username, password, role, is_active) ==
  [username |-> username, password |-> password, role |-> role,
   is_active |-> is_active]

UserUpdateIn(password, role, is_active) ==
  [password |-> password, role |-> role, is_active |-> is_active]

\* A welcome-desk user and a viewer.
StaffInputs ==
  { UserCreateIn(" w ", "secret", "welcome", TRUE),
    UserCreateIn("v", "secret", "viewer", TRUE) }

\* Deactivation and reactivation.
StaffUpdates ==
  { UserUpdateIn(None, None, Some(FALSE)), UserUpdateIn(None, None, Some(TRUE)) }

Logins == {<<"admin", "admin-pass">>, <<"w", "secret">>, <<"v", "secret">>}

\* Sending a token the server issued, still valid or expired.
PresentIssued == \E token \in tokens, valid \in BOOLEAN : Present(token, valid)

\* A database that holds event 1, the admin and the two staff users the
\* admin has created.
InitAuth ==
  /\ events = (1 :> Event(EventIn("A", Some(1), None, Some(1), {})))
  /\ categories = CategoryTable
  /\ reporting = <<>>
  /\ nextEventId = 2
  /\ nextReportingId = 1
  /\ last = NoCall
  /\ sessions = [s \in SessionIds |-> NoSession]
  /\ users = AdminOnly @@
       (2 :> User("w", get_password_hash("secret"), "welcome", TRUE)) @@
       (3 :> User("v", get_password_hash("secret"), "viewer", TRUE))
  /\ tokens = {}
  /\ bearer = NoBearer

NextAuth ==
  \/ PresentIssued
  \/ \E l \in Logins : login(l[1], l[2])
  \/ \E user_id \in DOMAIN users, payload \in StaffUpdates : put_users(user_id, payload)
  \/ post_reporting(Bare(1)) /\ nextReportingId' <= MaxAuthReporting + 1
  \/ post_reporting_manual(Full(1)) /\ nextReportingId' <= MaxAuthReporting + 1
  \/ \E reporting_id \in 1..MaxAuthReporting, reporting_in \in ReportingUpdates :
       put_reporting(reporting_id, reporting_in)
  \/ \E reporting_id \in 1..MaxAuthReporting : delete_reporting(reporting_id)
  \/ get_reports(None, None)

SpecAuth == InitAuth /\ [][NextAuth]_vars

(* ---------------- specification of the user management ----------------- *)

\* Bodies of POST /users: valid ones, a blank username, a short password,
\* an unknown role, a taken username and an inactive user.
UserInputs ==
  StaffInputs \cup
  { UserCreateIn(" ", "secret", "viewer", TRUE),
    UserCreateIn("w", "pw", "viewer", TRUE),
    UserCreateIn("w", "secret", "boss", TRUE),
    UserCreateIn("admin", "secret", "admin", TRUE),
    UserCreateIn("w", "secret", "admin", FALSE) }

\* Bodies of PUT /users/{id}: each field absent, valid or (role, password)
\* invalid.
UserUpdates ==
  {UserUpdateIn(password, role, is_active) :
     password \in {None, Some("pw"), Some("secret")},
     role \in {None, Some("viewer"), Some("boss")},
     is_active \in {None, Some(FALSE), Some(TRUE)}}

\* The users get_current_admin lets through.
ActiveAdmins == {u \in DOMAIN users : users[u].is_active /\ users[u].role = "admin"}

NextUsers ==
  \/ \E payload \in UserInputs :
       ActiveAdmins # {} /\ create_user(payload) /\ Cardinality(DOMAIN users') <= MaxUsers
  \/ \E current_admin \in ActiveAdmins, user_id \in 1..(MaxUsers + 1), payload \in UserUpdates :
       update_user(current_admin, user_id, payload)

SpecUsers == Init /\ [][NextUsers]_vars

(* ------------------------------- claims -------------------------------- *)

\* The last call was an event-backed submission (its Event was found).
Backed ==
  last.op = "create_reporting_entry" /\ last.branch \in {"insert", "update"}

\* The reported event, the row the call wrote and the payload of the call.
E == events[last.event_id]
Row == reporting[last.row]
In == Val(last.input)

\* C1: two submissions in a row for the same stored event, the first of
\* which found at most one reporting row of that event, leave exactly one
\* row of that event; the second call updates the row the first call wrote,
\* and the row id is the same after both calls.
C1_TwoSubmissionsOneRow ==
  (Backed /\ last.prev # <<>> /\ last.prev[2] <= 1) =>
    /\ Cardinality(RowsOf(reporting, last.event_id)) = 1
    /\ last.branch = "update"
    /\ last.row = last.prev[1]

\* C1 witness: a second submission right after a first one that inserted
\* the only row; the second one carried other values and they are stored.
C1_Witness ==
  /\ Backed /\ last.prev # <<>> /\ last.prev[2] = 0
  /\ In.visitor = Some(7) /\ Row.visitor = Some(7)
  /\ Cardinality(RowsOf(reporting, last.event_id)) = 1

\* C2: an event-backed submission changes no reporting row of its event
\* other than the one with the highest id, and when it updates a row, that
\* row is the one with the highest id.
C2_OnlyLatestRowModified ==
  [][ (last'.op = "create_reporting_entry" /\ last'.branch \in {"insert", "update"}) =>
        LET rows == RowsOf(reporting, last'.event_id)
        IN /\ \A r \in rows : r # MaxOf(rows) => reporting'[r] = reporting[r]
           /\ (last'.branch = "update") = (rows # {})
           /\ rows # {} => last'.row = MaxOf(rows) ]_vars

\* C2 witness: a submission updated the latest of several rows of its event
\* and an older row of that event still holds its manual title.
C2_Witness ==
  /\ Backed /\ last.branch = "update"
  /\ \E r \in RowsOf(reporting, last.event_id) :
       /\ r < last.row
       /\ reporting[r].event_title = "Manual"
       /\ Row.event_title # "Manual"

\* C3 (as claimed): a submission whose event id resolves to no stored Event
\* inserts a row, so the rows carrying that event id grow by exactly one.
C3_UnresolvedAlwaysInserts ==
  (last.op = "create_reporting_entry" /\ last.branch = "manual") =>
    /\ last.status = "200"
    /\ Cardinality(RowsOf(reporting, last.event_id)) = last.pre + 1

\* C10: after an event-backed submission the row's snapshot (title, date,
\* start time) is the Event's current title, start date and start time,
\* whatever the caller supplied for them.
C10_SnapshotFromEvent ==
  Backed =>
    /\ Row.event_title = E.title
    /\ Row.event_date = E.start_date
    /\ Row.event_start_time = E.start_time

\* C10 witness: the event was changed through update_event, the submission
\* updated an existing row, the caller supplied another title, date and
\* time, and the row shows the event's changed values.
C10_Witness ==
  /\ Backed /\ last.branch = "update"
  /\ E.title = "B" /\ E.start_date = Some(2) /\ E.start_time = None
  /\ In.event_title = Some("Manual") /\ In.event_date = Some(3)
  /\ In.event_start_time = Some(2)
  /\ Row.event_title = "B" /\ Row.event_date = Some(2)
  /\ Row.event_start_time = None

\* The other events that carry the category.
Tagged(name) ==
  {o \in DOMAIN events \ {last.event_id} :
     name \in cat_names(categories, events[o])}

\* The event's dates are both set and its period contains the date.
ClosedAround(o, D) ==
  /\ events[o].start_date # None /\ events[o].end_date # None
  /\ Val(events[o].start_date) <= D /\ D <= Val(events[o].end_date)

\* The event started on or before the date and has no end date.
OpenBefore(o, D) ==
  /\ events[o].start_date # None /\ events[o].end_date = None
  /\ Val(events[o].start_date) <= D

\* The event has no end date and starts on the date.
SingleDayOn(o, D) ==
  /\ events[o].start_date = Some(D) /\ events[o].end_date = None

TitlesOf(S) == {Some(events[o].title) : o \in S}

\* C4, for one category and the field it fills.
C4_For(name, stored) ==
  LET D == Val(E.start_date)
  IN (\E o \in Tagged(name) : ClosedAround(o, D)) =>
       stored \in TitlesOf({o \in Tagged(name) : ClosedAround(o, D) \/ OpenBefore(o, D)})

C5_SingleDayFor(name, detected) ==
  LET D == Val(E.start_date)
  IN detected # None =>
       detected \in TitlesOf({o \in Tagged(name) : ClosedAround(o, D) \/ SingleDayOn(o, D)})

\* C5 (as claimed): a candidate without end date overlaps only when it
\* starts on the reported event's date; one that started earlier does not
\* annotate the report.
C5_NoEndDateIsSingleDay ==
  (Backed /\ E.start_date # None) =>
    /\ C5_SingleDayFor("Ferien", last.vacation_title)
    /\ C5_SingleDayFor("Feiertag", last.holiday_title)

\* C5 (amended), for one category.
C5_OpenEndedFor(name, detected, stored) ==
  LET D == Val(E.start_date)
      around == {o \in Tagged(name) : ClosedAround(o, D) \/ OpenBefore(o, D)}
  IN /\ (\E o \in Tagged(name) : OpenBefore(o, D)) =>
          (detected \in TitlesOf(around) /\ stored = detected)
     /\ around = {} => detected = None

\* C5 (amended): a candidate without end date is an open-ended period from
\* its start date on: it overlaps whenever it started on or before the
\* reported event's date, so with such a "Ferien" ("Feiertag") event the
\* report is annotated with the title of an overlapping event of that
\* category; without any overlapping event nothing is detected.
C5_NoEndDateIsOpenEnded ==
  (Backed /\ E.start_date # None) =>
    /\ C5_OpenEndedFor("Ferien", last.vacation_title, Row.vacation)
    /\ C5_OpenEndedFor("Feiertag", last.holiday_title, Row.holiday)

\* C5 witness: the only "Ferien" event overlapping the date has no end date
\* and started on an earlier day, and its title is the stored vacation.
C5_Witness ==
  /\ Backed /\ E.start_date # None
  /\ \E o \in Tagged("Ferien") :
       /\ OpenBefore(o, Val(E.start_date))
       /\ Val(events[o].start_date) < Val(E.start_date)
       /\ Row.vacation = Some(events[o].title)
  /\ \A o \in Tagged("Ferien") :
       ~ClosedAround(o, Val(E.start_date)) /\ ~SingleDayOn(o, Val(E.start_date))

\* C6: after an event-backed submission, insert or update, each of
\* vacation, holiday and special is the detected value when one was
\* detected and the caller's value (possibly None) otherwise.
C6_MergeRule ==
  Backed =>
    /\ Row.vacation =
         (IF last.vacation_title # None THEN last.vacation_title ELSE In.vacation)
    /\ Row.holiday =
         (IF last.holiday_title # None THEN last.holiday_title ELSE In.holiday)
    /\ Row.special =
         (IF last.special_value # None THEN last.special_value ELSE In.special)

\* C6 witness: an update with every value supplied, where holiday and
\* special were detected and replace the caller's values and vacation was
\* not and is the caller's.
C6_Witness ==
  /\ Backed /\ last.branch = "update"
  /\ In.vacation = Some("V") /\ In.holiday = Some("H") /\ In.special = Some("S")
  /\ last.vacation_title = None /\ Row.vacation = Some("V")
  /\ last.holiday_title # None /\ Row.holiday # Some("H")
  /\ last.special_value # None /\ Row.special # Some("S")

\* The other events in the reported event's slot that contribute a title.
SlotEvents ==
  {o \in DOMAIN events \ {last.event_id} :
     /\ events[o].start_date = E.start_date
     /\ events[o].start_time = E.start_time
     /\ {"Lobpreisabend", "Special"} \cap cat_names(categories, events[o]) # {}
     /\ events[o].title # ""}

SlotTitles == {events[o].title : o \in SlotEvents}

\* C7: for a reported event with start date and start time the detected
\* special is made of exactly the titles of the other events with that
\* start date and start time that carry "Lobpreisabend" or "Special" and
\* have a non-empty title: it is those titles in some order joined by
\* ", ", and None when there are none.
C7_SpecialFromSlotTitles ==
  (Backed /\ E.start_date # None /\ E.start_time # None) =>
    IF SlotTitles = {}
    THEN last.special_value = None
    ELSE \E s \in Perms(SlotTitles) : last.special_value = Some(Join(s))

\* C7 witness: one event of the slot contributes its title and another
\* event, which differs in time, lacks the categories or has an empty
\* title, does not.
C7_Witness ==
  /\ Backed /\ E.start_date # None /\ E.start_time # None
  /\ Cardinality(SlotEvents) = 1
  /\ \E o \in DOMAIN events \ ({last.event_id} \cup SlotEvents) :
       events[o].start_date = E.start_date
  /\ last.special_value = Some(CHOOSE t \in SlotTitles : TRUE)

\* The first occurrences of the elements of T, in the order of T.
FirstOccurrences(T) ==
  LET I == {i \in 1..Len(T) : \A j \in 1..(i - 1) : T[j] # T[i]}
      Rank(i) == Cardinality({j \in I : j <= i})
  IN [k \in 1..Cardinality(I) |-> T[CHOOSE i \in I : Rank(i) = k]]

\* C8: the detected special holds every distinct contributed title once,
\* in the order of first occurrence in the result list, joined by ", ".
C8_SpecialDedupedInOrder ==
  Backed =>
    LET T == last.special_titles
    IN /\ Len(T) = (IF E.start_date # None /\ E.start_time # None
                    THEN Cardinality(SlotEvents) ELSE 0)
       /\ last.special_value =
            (IF T = <<>> THEN None ELSE Some(Join(FirstOccurrences(T))))

\* C8 witness: two events of the slot contributed the same title and the
\* detected special is that title once.
C8_Witness ==
  /\ Backed
  /\ Len(last.special_titles) = 2
  /\ last.special_titles[1] = last.special_titles[2]
  /\ last.special_value = Some(last.special_titles[1])

\* C9: for a reported event without start date nothing is detected and the
\* stored vacation, holiday and special are the caller's values.
C9_NoDateNoDetection ==
  (Backed /\ E.start_date = None) =>
    /\ last.vacation_title = None /\ last.holiday_title = None
    /\ last.special_value = None
    /\ Row.vacation = In.vacation /\ Row.holiday = In.holiday
    /\ Row.special = In.special

\* C9 witness: the reported event has a start time and no start date,
\* another event with that start time carries "Special", and the caller's
\* values are stored.
C9_Witness ==
  /\ Backed /\ E.start_date = None /\ E.start_time # None
  /\ \E o \in DOMAIN events \ {last.event_id} :
       /\ events[o].start_time = E.start_time
       /\ "Special" \in cat_names(categories, events[o])
       /\ events[o].title # ""
  /\ In.special = Some("S") /\ Row.special = Some("S")
  /\ Row.vacation = Some("V") /\ Row.holiday = Some("H")

\* C11 (as claimed): every call of create_reporting_entry writes exactly one
\* reporting row, either a new row or one existing row, leaves every other
\* reporting row as it was and changes no event and no category.
C11_ExactlyOneRowWritten ==
  [][ last'.op = "create_reporting_entry" =>
        /\ events' = events /\ categories' = categories
        /\ \/ /\ Cardinality(DOMAIN reporting' \ DOMAIN reporting) = 1
              /\ \A r \in DOMAIN reporting :
                   r \in DOMAIN reporting' /\ reporting'[r] = reporting[r]
           \/ /\ DOMAIN reporting' = DOMAIN reporting
              /\ last'.row \in DOMAIN reporting
              /\ \A r \in DOMAIN reporting \ {last'.row} :
                   reporting'[r] = reporting[r] ]_vars

\* C12 (as claimed): every call of create_reporting_entry_manual inserts a
\* new row that holds the payload's values (event id 99 for a falsy id, ""
\* for a missing title) and nothing detected, whether or not the id is
\* that of a stored Event with reporting rows.
C12_ManualAlwaysInserts ==
  last.op = "create_reporting_entry_manual" =>
    /\ last.status = "200"
    /\ Cardinality(RowsOf(reporting, last.event_id)) = last.pre + 1
    /\ last.row \in DOMAIN reporting
    /\ \A r \in DOMAIN reporting : r <= last.row
    /\ Row = Reporting(last.event_id, StrOr(In.event_title, ""), In.event_date,
                       In.event_start_time, In.visitor, In.vacation,
                       In.holiday, In.special)

\* C14: a reporting row leaves the store only in a step of
\* delete_reporting_entry for its id, and a step of delete_event leaves the
\* reporting rows as they were.
C14_RowsLeaveOnlyByDelete ==
  [][ /\ \A r \in DOMAIN reporting \ DOMAIN reporting' :
           last'.op = "delete_reporting_entry" /\ last'.row = r
      /\ last'.op = "delete_event" => reporting' = reporting ]_vars

\* C14 witness: delete_event was called for an event that has reporting
\* rows; the rows are still there and still carry the event's id.
C14_Witness ==
  /\ last.op = "delete_event"
  /\ last.event_id \in DOMAIN events
  /\ RowsOf(reporting, last.event_id) # {}

\* The other events that have a start date.
DatedOthers == {o \in DOMAIN events \ {last.event_id} : events[o].start_date # None}

\* C18: whatever an event-backed submission detects comes from events that
\* have a start date: the detected vacation and holiday are titles of dated
\* events of the category, every contributed special title is the title of
\* a dated event, and the stored values are these or the caller's.
C18_UndatedNeverContributes ==
  Backed =>
    /\ last.vacation_title \in {None} \cup TitlesOf(Tagged("Ferien") \cap DatedOthers)
    /\ last.holiday_title \in {None} \cup TitlesOf(Tagged("Feiertag") \cap DatedOthers)
    /\ \A i \in 1..Len(last.special_titles) :
         Some(last.special_titles[i]) \in TitlesOf(DatedOthers)
    /\ Row.vacation \in {In.vacation} \cup TitlesOf(Tagged("Ferien") \cap DatedOthers)
    /\ Row.holiday \in {In.holiday} \cup TitlesOf(Tagged("Feiertag") \cap DatedOthers)

\* C18 witness: the reported event has a date and a time; another event
\* without start date has an end date after that date, the same start time
\* and the categories "Ferien", "Feiertag" and "Special"; no vacation is
\* detected and its title is in none of the three stored values.
C18_Witness ==
  /\ Backed /\ E.start_date # None /\ E.start_time # None
  /\ \E o \in DOMAIN events \ {last.event_id} :
       /\ events[o].start_date = None
       /\ events[o].end_date # None /\ Val(events[o].end_date) > Val(E.start_date)
       /\ events[o].start_time = E.start_time
       /\ {"Ferien", "Feiertag", "Special"} \subseteq cat_names(categories, events[o])
       /\ Row.vacation # Some(events[o].title)
       /\ Row.holiday # Some(events[o].title)
       /\ \A i \in 1..Len(last.special_titles) : last.special_titles[i] # events[o].title
  /\ last.vacation_title = None

\* C19: when no other event of the reported event's slot contributes a
\* title (or the reported event has no slot) and the caller supplies no
\* special, the stored special is None; a call without a supplied special
\* never stores the empty string.
C19_NoSpecialIsNone ==
  (Backed /\ In.special = None) =>
    /\ (E.start_date = None \/ E.start_time = None \/ SlotEvents = {}) =>
         Row.special = None
    /\ Row.special # Some("")

\* C19 witness: the only other "Special" event of the slot has an empty
\* title, the caller supplied no special and the stored special is None.
C19_Witness ==
  /\ Backed /\ In.special = None
  /\ E.start_date # None /\ E.start_time # None /\ SlotEvents = {}
  /\ \E o \in DOMAIN events \ {last.event_id} :
       /\ events[o].start_date = E.start_date
       /\ events[o].start_time = E.start_time
       /\ "Special" \in cat_names(categories, events[o])
       /\ events[o].title = ""
  /\ Row.special = None

\* The other events of the category whose period contains the reported
\* event's date (no end date: open-ended, see C5).
Around(name) ==
  {o \in Tagged(name) :
     ClosedAround(o, Val(E.start_date)) \/ OpenBefore(o, Val(E.start_date))}

MinOf(S) == CHOOSE m \in S : \A x \in S : m <= x

\* C20 (as claimed): among the overlapping events of a category the one
\* with the lowest id gives the detected title.
C20_LowestIdChosen ==
  (Backed /\ E.start_date # None) =>
    /\ Around("Ferien") # {} =>
         last.vacation_title = Some(events[MinOf(Around("Ferien"))].title)
    /\ Around("Feiertag") # {} =>
         last.holiday_title = Some(events[MinOf(Around("Feiertag"))].title)

\* C20 (amended): with overlapping events of a category the detected title
\* is the title of one of them (the first in the order the store returns
\* them, which no tie-break fixes), and it is the stored value.
C20_SomeOverlappingChosen ==
  (Backed /\ E.start_date # None) =>
    /\ Around("Ferien") # {} =>
         (last.vacation_title \in TitlesOf(Around("Ferien"))
            /\ Row.vacation = last.vacation_title)
    /\ Around("Feiertag") # {} =>
         (last.holiday_title \in TitlesOf(Around("Feiertag"))
            /\ Row.holiday = last.holiday_title)

\* C20 witness: two "Ferien" events with different titles overlap the date
\* and the detected vacation is the title of the one with the higher id.
C20_Witness ==
  /\ Backed /\ E.start_date # None
  /\ Cardinality(Around("Ferien")) = 2
  /\ \E o \in Around("Ferien") :
       /\ o # MinOf(Around("Ferien"))
       /\ events[o].title # events[MinOf(Around("Ferien"))].title
       /\ last.vacation_title = Some(events[o].title)
       /\ Row.vacation = Some(events[o].title)

\* The last call was a submission through either entry point.
Submitted ==
  last.op \in {"create_reporting_entry", "create_reporting_entry_manual"}

\* C15 (as claimed), for submissions that name a stored Event: the call is
\* accepted and the row it wrote holds the visitor value of the payload,
\* None when the payload has none.
C15_VisitorRoundTrip ==
  (Submitted /\ In.event_id # None /\ Val(In.event_id) \in DOMAIN events) =>
    /\ last.status = "200"
    /\ last.row \in DOMAIN reporting
    /\ Row.visitor = In.visitor

\* C16 (as claimed): a manual submission, or a submission for which no
\* Event is found, without event id or with a falsy one and without title
\* or with an empty one is accepted and its row has event id 99 and
\* title "".
C16_ManualDefaults ==
  (/\ Submitted
   /\ In.event_id \in {None, Some(0)}
   /\ In.event_title \in {None, Some("")}
   /\ In.visitor # None) =>
    /\ last.status = "200"
    /\ last.row \in DOMAIN reporting
    /\ Row.event_id = ManualEventId
    /\ Row.event_title = ""

\* C17 (as claimed): create_reporting_entry answers every body that has an
\* event id and a visitor with a reporting row, whether or not an Event has
\* the id.
C17_SubmitNeverFails ==
  (/\ last.op = "create_reporting_entry"
   /\ In.event_id # None /\ In.visitor # None) =>
    /\ last.status = "200"
    /\ last.row \in DOMAIN reporting

\* C13 (as claimed): of two calls for the same stored event that both
\* looked up the same latest row before either committed, the one that
\* commits last succeeds, leaves the number of rows of the event as it was
\* and leaves in that row the values it computed: the event's title, date
\* and time, its visitor value and its merged vacation, holiday and special.
C13_LastWriterWins ==
  (Backed /\ last.branch = "update" /\ last.prev = <<"overtaken">>) =>
    /\ last.status = "200"
    /\ Cardinality(RowsOf(reporting, last.event_id)) = last.pre
    /\ \A r \in RowsOf(reporting, last.event_id) : r <= last.row
    /\ Row.event_title = E.title /\ Row.event_date = E.start_date
    /\ Row.event_start_time = E.start_time
    /\ Row.visitor = In.visitor
    /\ Row.vacation = Merge(last.vacation_title, In.vacation)
    /\ Row.holiday = Merge(last.holiday_title, In.holiday)
    /\ Row.special = Merge(last.special_value, In.special)

\* C21 (as claimed): of two calls for the same stored event that both
\* found no reporting row of it before either committed, the one that
\* commits last leaves exactly one row of that event.
C21_RacingInsertsOneRow ==
  (Backed /\ last.branch = "insert" /\ last.prev = <<"overtaken">>) =>
    /\ last.status = "200"
    /\ Cardinality(RowsOf(reporting, last.event_id)) = 1

Edited(new, old) == IF new = None THEN old ELSE new

\* C23: a successful update_reporting_entry sets each of the seven fields
\* to the payload's value when that is not None and leaves it otherwise, so
\* a field that held a value still holds one; the row's event_id, the set
\* of row ids and every other row are unchanged.
C23_EditKeepsUnsetFields ==
  [][ (last'.op = "update_reporting_entry" /\ last'.status = "200") =>
        LET r == last'.row
            p == Val(last'.input)
            old == reporting[r]
            new == reporting'[r]
        IN /\ r \in DOMAIN reporting /\ DOMAIN reporting' = DOMAIN reporting
           /\ \A x \in DOMAIN reporting \ {r} : reporting'[x] = reporting[x]
           /\ new.event_id = old.event_id
           /\ new.visitor = Edited(p.visitor, old.visitor)
           /\ Some(new.event_title) = Edited(p.event_title, Some(old.event_title))
           /\ new.event_date = Edited(p.event_date, old.event_date)
           /\ new.event_start_time = Edited(p.event_start_time, old.event_start_time)
           /\ new.vacation = Edited(p.vacation, old.vacation)
           /\ new.holiday = Edited(p.holiday, old.holiday)
           /\ new.special = Edited(p.special, old.special)
           /\ \A f \in {"visitor", "event_date", "event_start_time", "vacation",
                        "holiday", "special"} : old[f] # None => new[f] # None ]_vars

\* C23 witness: an edit without visitor, vacation, holiday and special set
\* an empty title and a date on a row that still holds its visitor 7 and
\* its vacation, holiday and special.
C23_Witness ==
  /\ last.op = "update_reporting_entry" /\ last.status = "200"
  /\ In.visitor = None /\ In.event_title = Some("") /\ In.event_date = Some(2)
  /\ Row.visitor = Some(7) /\ Row.event_title = "" /\ Row.event_date = Some(2)
  /\ Row.vacation = Some("V") /\ Row.holiday = Some("H") /\ Row.special = Some("S")
  /\ Cardinality(DOMAIN reporting) = 2

\* C24: a successful delete_reporting_entry names a stored row and removes
\* that row and no other; a call of delete_reporting_entry or
\* update_reporting_entry succeeds only for the id of a stored row and
\* otherwise answers 404 and leaves the reporting table as it was.
C24_DeleteExactlyOne ==
  [][ /\ (last'.op = "delete_reporting_entry" /\ last'.status # "404") =>
           /\ last'.status = "204"
           /\ last'.row \in DOMAIN reporting
           /\ DOMAIN reporting' = DOMAIN reporting \ {last'.row}
           /\ \A x \in DOMAIN reporting' : reporting'[x] = reporting[x]
      /\ (last'.op = "update_reporting_entry" /\ last'.status # "404") =>
           (last'.status = "200" /\ last'.row \in DOMAIN reporting)
      /\ (last'.op \in {"delete_reporting_entry", "update_reporting_entry"}
            /\ last'.status = "404") =>
           reporting' = reporting ]_vars

\* C24 witness: a row was deleted and another row of the same event is
\* still stored.
C24_Witness ==
  /\ last.op = "delete_reporting_entry" /\ last.status = "204"
  /\ last.row \notin DOMAIN reporting
  /\ RowsOf(reporting, last.event_id) # {}

\* The report ran without start_date and end_date.
Unfiltered ==
  /\ last.op = "report_visitors_by_title"
  /\ In.start_date = None /\ In.end_date = None

\* The positions of the returned list that hold row r.
ItemsOf(r) == {i \in 1..Len(last.result) : last.result[i].id = r}

Bearer == get_user_by_username(bearer.sub)

\* C26: a step that creates, changes or deletes a reporting row serves a
\* request whose token decodes and names a stored, active user; that
\* user's role is welcome or admin when the step is submit_reporting and
\* admin when it is submit_reporting_manual, update_reporting_entry or
\* delete_reporting_entry.
C26_OnlyAuthorizedWrites ==
  [][ reporting' # reporting =>
        /\ bearer.valid /\ Bearer # None
        /\ users[Val(Bearer)].is_active
        /\ last'.op \in {"create_reporting_entry", "create_reporting_entry_manual",
                         "update_reporting_entry", "delete_reporting_entry"}
        /\ users[Val(Bearer)].role \in
             IF last'.op = "create_reporting_entry"
             THEN {"welcome", "admin"} ELSE {"admin"} ]_vars

\* C26 witness: the welcome-desk user's submission stored a row, while the
\* viewer is active and the admin's account exists.
C26_Witness ==
  /\ last.op = "create_reporting_entry" /\ last.status = "200"
  /\ last.row \in DOMAIN reporting
  /\ bearer.valid /\ Bearer # None
  /\ users[Val(Bearer)].role = "welcome" /\ users[Val(Bearer)].is_active
  /\ \E v \in DOMAIN users : users[v].role = "viewer" /\ users[v].is_active

\* The operations behind get_current_user, get_current_welcome or
\* get_current_admin.
GuardedOps ==
  {"create_reporting_entry", "create_reporting_entry_manual",
   "update_reporting_entry", "delete_reporting_entry",
   "report_visitors_by_title", "update_user"}

\* C27: a request to a guarded endpoint that presents a token of a user
\* whose is_active is False is answered 401 and changes nothing but the
\* call record; is_active changes only by a successful update_user that
\* carries the new value, so this lasts until the user is set active again.
C27_InactiveRejected ==
  [][ /\ ( /\ last'.op \in GuardedOps
           /\ <<bearer, tokens>>' = <<bearer, tokens>>
           /\ Bearer # None /\ ~users[Val(Bearer)].is_active ) =>
            /\ last'.status = "401"
            /\ <<events, reporting, users, nextReportingId>>' =
                 <<events, reporting, users, nextReportingId>>
      /\ \A u \in DOMAIN users :
           users'[u].is_active # users[u].is_active =>
             /\ last'.op = "update_user" /\ last'.status = "200"
             /\ Val(last'.input).user_id = u
             /\ Val(last'.input).payload.is_active = Some(users'[u].is_active) ]_vars

\* C27 witness: a token that was issued before update_user deactivated its
\* user, and that still decodes, was presented right after and got 401.
C27_Witness ==
  /\ last.op \in GuardedOps /\ last.status = "401"
  /\ bearer.valid /\ bearer \in tokens
  /\ Bearer # None /\ ~users[Val(Bearer)].is_active
  /\ last.prev = <<Val(Bearer), Some(FALSE)>>

\* C28: an update_user call that is not answered 200 leaves the users
\* table as it was.
C28_RejectedUpdateKeepsUser ==
  [][ (last'.op = "update_user" /\ last'.status # "200") =>
        (last'.status \in {"400", "404"} /\ users' = users) ]_vars

\* C28 witness: an update_user with a valid role and is_active = True was
\* rejected for its short password; the user is still an inactive admin
\* with the password hash it had.
C28_Witness ==
  /\ last.op = "update_user" /\ last.status = "400"
  /\ In.user_id \in DOMAIN users
  /\ In.payload.password = Some("pw")
  /\ In.payload.role = Some("viewer") /\ users[In.user_id].role = "admin"
  /\ In.payload.is_active = Some(TRUE) /\ ~users[In.user_id].is_active
  /\ users[In.user_id].password_hash = get_password_hash("secret")

\* The columns of an events row that update_event sets with setattr.
SimpleFields == {"parent_id", "link_id", "start_date", "end_date", "start_time"}

\* C29: a successful update_event sets exactly the simple fields that the
\* request carries; category_ids (planning_level_ids) absent or None leaves
\* the event's categories (planning levels) as they were, an empty list
\* clears them, and a non-empty list replaces them by the stored categories
\* (planning levels) whose ids are in the list; the other events stay.
C29_UpdateEventFrame ==
  [][ (last'.op = "update_event" /\ last'.status = "200") =>
        LET id == last'.event_id
            p == Val(last'.input)
            old == events[id]
            new == events'[id]
            ids(f) == IF f \in DOMAIN p THEN p[f] ELSE None
        IN /\ id \in DOMAIN events /\ DOMAIN events' = DOMAIN events
           /\ \A o \in DOMAIN events \ {id} : events'[o] = events[o]
           /\ \A f \in SimpleFields :
                new[f] = IF f \in DOMAIN p THEN p[f] ELSE old[f]
           /\ new.title = IF "title" \in DOMAIN p THEN Val(p.title) ELSE old.title
           /\ new.categories =
                IF ids("category_ids") = None THEN old.categories
                ELSE {c \in DOMAIN categories : c \in Val(ids("category_ids"))}
           /\ new.planning_levels =
                IF ids("planning_level_ids") = None THEN old.planning_levels
                ELSE {l \in DOMAIN PlanningLevelTable :
                        l \in Val(ids("planning_level_ids"))} ]_vars

\* C29 witness: an update that sent category_ids = [] alone cleared the
\* categories of an event that keeps its title, date and planning level.
C29_Witness ==
  /\ last.op = "update_event" /\ last.status = "200"
  /\ DOMAIN In = {"category_ids"} /\ In.category_ids = Some({})
  /\ E.categories = {} /\ E.planning_levels = {1}
  /\ E.title = "A" /\ E.start_date = Some(1)

\* The events reached from e by following parent_id up to n times.
RECURSIVE Ancestors(_, _)
Ancestors(e, n) ==
  IF n = 0 \/ e \notin DOMAIN events \/ events[e].parent_id = None THEN {}
  ELSE {Val(events[e].parent_id)} \cup Ancestors(Val(events[e].parent_id), n - 1)

\* The ids of the nodes of a list of nested nodes, with repetitions.
RECURSIVE NodeIds(_)
NodeIds(nodes) ==
  IF nodes = <<>> THEN <<>>
  ELSE <<Head(nodes).id>> \o NodeIds(Head(nodes).children) \o NodeIds(Tail(nodes))

\* C30 (as claimed): no event is its own ancestor, and the tree that
\* get_event_tree returns holds every stored event exactly once.
C30_ForestAndTreeComplete ==
  /\ \A e \in DOMAIN events : e \notin Ancestors(e, Cardinality(DOMAIN events))
  /\ last.op = "get_event_tree" =>
       \A e \in DOMAIN events :
         Cardinality({i \in 1..Len(NodeIds(last.result)) :
                        NodeIds(last.result)[i] = e}) = 1

====
